---- MODULE Spec2Model ----
(***************************************************************************)
(* A model of sage.groups.affine_gps.affine_group.AffineGroup (group       *)
(* construction and the special element constructors) and of               *)
(* sage.misc.test_class_pickling (pickling of classes made by a            *)
(* metaclass).                                                             *)
(***************************************************************************)
EXTENDS Integers, Sequences, FiniteSets, TLC

VARIABLES
    instances,  \* the AffineGroup objects built so far, by identity (index)
    cache,      \* UniqueRepresentation's cache: (degree, ring) -> identity
    last,       \* the last construction call: its arguments and its outcome
    G,          \* the group whose element constructors are called
    pc,         \* "idle", or the resampling loop a call is in
    cand,       \* the candidate matrix of the resampling loop
    res,        \* what the last completed call returned or raised
    anCache,    \* the cached_method cache of _an_element_
    heap,       \* the classes made by metaclass(), by identity (index)
    dumped,     \* the class last given to dumps
    pickled,    \* the pickle dumps produced for it
    loaded      \* the class loads built from that pickle

gvars == <<instances, cache, last>>
evars == <<G, pc, cand, res, anCache>>
pvars == <<heap, dumped, pickled, loaded>>
vars == <<instances, cache, last, G, pc, cand, res, anCache, heap, dumped, pickled, loaded>>

(***************************************************************************)
(* Bounds of the construction model.                                       *)
(***************************************************************************)
MaxGroups == 2       \* at most this many distinct groups are built
MaxArgDegree == 1    \* degree arguments range over -1 .. MaxArgDegree

None == 0 - 1        \* "no object": no instance, no relative dimension

(***************************************************************************)
(* Rings.  A ring is a record; order = 0 marks an infinite ring.           *)
(***************************************************************************)
QQ == [name |-> "QQ", order |-> 0, var |-> ""]
NoRing == [name |-> "", order |-> 0, var |-> ""]

IsPrime(n) == n > 1 /\ \A k \in 2..(n - 1) : n % k # 0

IsPrimePower(n) ==
    n > 1 /\ \E p \in 2..n : IsPrime(p) /\ \A k \in 2..n : (IsPrime(k) /\ n % k = 0) => k = p

\* FiniteField(order, name): the generator name is dropped for a prime field.
FiniteField(q, var) ==
    IF IsPrime(q) THEN [name |-> "GF", order |-> q, var |-> ""]
    ELSE [name |-> "GF", order |-> q, var |-> var]

ArgRings == {QQ, FiniteField(4, "a")}
ArgOrders == {2, 4, 6}
ArgVars == {"", "a", "b"}     \* "" is: no var keyword given
ArgDegrees == (0 - 1)..MaxArgDegree

(***************************************************************************)
(* Construction arguments.  form is "group" (one argument, an AffineGroup),*)
(* "space" (one argument with a dimension and a base ring), "ring" (degree *)
(* and a ring), "order" (degree and an integer) or "other" (any other      *)
(* number of arguments).                                                   *)
(***************************************************************************)
Args(form, g, hasRel, rel, dim, ring, order, var) ==
    [form |-> form, g |-> g, hasRel |-> hasRel, rel |-> rel, dim |-> dim,
     ring |-> ring, order |-> order, var |-> var]

GroupArgs(g) == Args("group", g, FALSE, None, None, NoRing, 0, "")
SpaceArgs(hasRel, rel, dim, ring) ==
    Args("space", None, hasRel, IF hasRel THEN rel ELSE None, dim, ring, 0, "")
RingArgs(d, ring) == Args("ring", None, FALSE, None, d, ring, 0, "")
OrderArgs(d, q, var) == Args("order", None, FALSE, None, d, NoRing, q, var)
OtherArgs == Args("other", None, FALSE, None, None, NoRing, 0, "")

Outcome(tag, degree, ring, exc) ==
    [tag |-> tag, degree |-> degree, ring |-> ring, exc |-> exc]

\* __classcall__ reading V.dimension() even where dimension_relative exists
Normalize_dimension(a) ==
    CASE a.form = "group" -> Outcome("instance", None, NoRing, "")
      [] a.form = "space" -> Outcome("key", a.dim, a.ring, "")
      [] a.form = "ring" -> Outcome("key", a.dim, a.ring, "")
      [] a.form = "order" ->
            IF IsPrimePower(a.order)
            THEN Outcome("key", a.dim,
                         FiniteField(a.order, IF a.var = "" THEN "a" ELSE a.var), "")
            ELSE Outcome("raise", None, NoRing, "ValueError")
      [] OTHER -> Outcome("raise", None, NoRing, "UnboundLocalError")

\* AffineGroup.__classcall__ up to the call of the cached constructor: the
\* instance to return unchanged, the (degree, ring) pair to look up, or the
\* exception raised.
Normalize(a) ==
    CASE a.form = "group" -> Outcome("instance", None, NoRing, "")
      [] a.form = "space" ->
            Outcome("key", IF a.hasRel THEN a.rel ELSE a.dim, a.ring, "")
      [] a.form = "ring" -> Outcome("key", a.dim, a.ring, "")
      [] a.form = "order" ->
            IF IsPrimePower(a.order)
            THEN Outcome("key", a.dim,
                         FiniteField(a.order, IF a.var = "" THEN "a" ELSE a.var), "")
            ELSE Outcome("raise", None, NoRing, "ValueError")
      [] OTHER -> Outcome("raise", None, NoRing, "UnboundLocalError")

\* __init__ without the assignment of self._degree
AffineGroupInit_nodegree(degree, ring) == [degree |-> None, ring |-> ring]

\* AffineGroup.__init__: the fields of the new object.
AffineGroupInit(degree, ring) == [degree |-> degree, ring |-> ring]

CacheHit(degree, ring) == {e \in cache : e.degree = degree /\ e.ring = ring}

Result(tag, id, exc, before) == [tag |-> tag, id |-> id, exc |-> exc, before |-> before]

NoCall == [args |-> OtherArgs, key |-> Outcome("none", None, NoRing, ""),
           res |-> Result("none", None, "", 0)]


(***************************************************************************)
(* Bounds of the element model: the groups are those of degree at most     *)
(* MaxDegree over GF(p), p in FieldOrders, whose matrix space has at most  *)
(* MaxSpace (MaxSpaceAlg for the deterministic constructors) matrices.     *)
(***************************************************************************)
MaxDegree == 2
MaxSpace == 16
MaxSpaceAlg == 625
FieldOrders == {2, 3, 5}

RECURSIVE Power(_, _)
Power(x, n) == IF n = 0 THEN 1 ELSE x * Power(x, n - 1)

\* The check a group applies to its elements: AffineGroup's own ("base"), or
\* an override of a subgroup: determinant one ("special"), or no translation
\* part ("linear").
Kinds == {"base", "special", "linear"}

GroupsUpTo(n, kinds) ==
    {[degree |-> d, p |-> p, kind |-> k] :
        d \in {e \in 0..MaxDegree : \E q \in FieldOrders : Power(q, e * e) <= n},
        p \in FieldOrders, k \in kinds}

\* the groups of the given kinds with at most n matrices in their matrix space
Groups(n, kinds) == {g \in GroupsUpTo(n, kinds) : Power(g.p, g.degree * g.degree) <= n}

(***************************************************************************)
(* Matrices and vectors over GF(p), p prime: tuples of residues.           *)
(***************************************************************************)
Mod(x, p) == x % p

\* AffineGroup.matrix_space / vector_space: the spaces of group g.
matrix_space(g) == [1..g.degree -> [1..g.degree -> 0..(g.p - 1)]]
vector_space(g) == [1..g.degree -> 0..(g.p - 1)]

One(g) == [i \in 1..g.degree |-> [j \in 1..g.degree |-> IF i = j THEN 1 ELSE 0]]
Zero(g) == [i \in 1..g.degree |-> 0]

RECURSIVE SumTo(_, _, _)
\* sum of f[1..n] modulo p
SumTo(f, n, p) == IF n = 0 THEN 0 ELSE Mod(SumTo(f, n - 1, p) + f[n], p)

Minor(M, j) ==
    [r \in 1..(Len(M) - 1) |->
        [c \in 1..(Len(M) - 1) |-> M[r + 1][IF c < j THEN c ELSE c + 1]]]

RECURSIVE Det(_, _)
\* the determinant, by expansion along the first row
Det(M, p) ==
    IF Len(M) = 0 THEN Mod(1, p)
    ELSE SumTo([j \in 1..Len(M) |->
                  Mod((IF j % 2 = 1 THEN 1 ELSE p - 1) * M[1][j] * Det(Minor(M, j), p), p)],
               Len(M), p)

IsUnit(x, p) == \E y \in 0..(p - 1) : Mod(x * y, p) = Mod(1, p)
Inverse(x, p) == CHOOSE y \in 0..(p - 1) : Mod(x * y, p) = Mod(1, p)

\* Matrix.is_invertible: square with a unit determinant.
is_invertible(M, p) == IsUnit(Det(M, p), p)

MatMul(M, N, p) ==
    [i \in 1..Len(M) |-> [j \in 1..Len(M) |->
        SumTo([k \in 1..Len(M) |-> M[i][k] * N[k][j]], Len(M), p)]]
MatVec(M, v, p) ==
    [i \in 1..Len(M) |-> SumTo([k \in 1..Len(M) |-> M[i][k] * v[k]], Len(M), p)]
VecAdd(v, w, p) == [i \in 1..Len(v) |-> Mod(v[i] + w[i], p)]

(***************************************************************************)
(* The outcome of a call: an element (A, b), or the exception raised.      *)
(***************************************************************************)
Returned(op, from, A, b, argA, argv) ==
    [op |-> op, from |-> from, status |-> "ok", A |-> A, b |-> b, argA |-> argA, argv |-> argv]
Raised(op, exc, argA, argv) ==
    [op |-> op, from |-> "", status |-> exc, A |-> <<>>, b |-> <<>>, argA |-> argA, argv |-> argv]
NoRes == [op |-> "none", from |-> "", status |-> "none", A |-> <<>>, b |-> <<>>,
          argA |-> <<>>, argv |-> <<>>]
NoElement == [set |-> FALSE, A |-> <<>>, b |-> <<>>]

\* _element_constructor_check testing nothing
BaseCheck_accept(g, A, b) == TRUE

\* AffineGroup._element_constructor_check: TRUE when it returns, FALSE when
\* it raises TypeError.
BaseCheck(g, A, b) == is_invertible(A, g.p)

\* The check of group g: the base check, narrowed by a subgroup's override.
element_constructor_check(g, A, b) ==
    CASE g.kind = "special" -> BaseCheck(g, A, b) /\ Det(A, g.p) = Mod(1, g.p)
      [] g.kind = "linear" -> BaseCheck(g, A, b) /\ b = Zero(g)
      [] OTHER -> BaseCheck(g, A, b)

\* AffineGroupElement(parent, A, b, check=..., convert=False)
element_class(op, g, A, b, check, argA, argv) ==
    IF check /\ ~element_constructor_check(g, A, b)
    THEN Raised(op, "TypeError", argA, argv)
    ELSE Returned(op, "", A, b, argA, argv)

\* linear building its element with check=False
linear_nocheck(g, A) == element_class("linear", g, A, Zero(g), FALSE, A, <<>>)

\* AffineGroup.linear(A)
linear(g, A) == element_class("linear", g, A, Zero(g), TRUE, A, <<>>)

\* AffineGroup.translation(b)
translation(g, b) == element_class("translation", g, One(g), b, FALSE, <<>>, b)

Norm2(v, p) == SumTo([i \in 1..Len(v) |-> v[i] * v[i]], Len(v), p)

\* the matrix one() - v.column() * (v.row() * t)
Householder(g, v, t) ==
    [i \in 1..g.degree |-> [j \in 1..g.degree |->
        Mod((IF i = j THEN 1 ELSE 0) + g.p * g.p * g.p - v[i] * Mod(v[j] * t, g.p), g.p)]]

\* reflection without the except clause: the ZeroDivisionError escapes
reflection_nocatch(g, v) ==
    IF ~IsUnit(Norm2(v, g.p), g.p)
    THEN Raised("reflection", "ZeroDivisionError", <<>>, v)
    ELSE element_class("reflection", g,
                       Householder(g, v, Mod(Mod(2, g.p) * Inverse(Norm2(v, g.p), g.p), g.p)),
                       Zero(g), TRUE, <<>>, v)

\* reflection with the factor 2 in place of 2 / |v|^2
reflection_unnormalized(g, v) ==
    IF ~IsUnit(Norm2(v, g.p), g.p)
    THEN Raised("reflection", "ValueError", <<>>, v)
    ELSE element_class("reflection", g, Householder(g, v, Mod(2, g.p)),
                       Zero(g), TRUE, <<>>, v)

\* reflection building its element with check=False
reflection_nocheck(g, v) ==
    IF ~IsUnit(Norm2(v, g.p), g.p)
    THEN Raised("reflection", "ValueError", <<>>, v)
    ELSE element_class("reflection", g,
                       Householder(g, v, Mod(Mod(2, g.p) * Inverse(Norm2(v, g.p), g.p), g.p)),
                       Zero(g), FALSE, <<>>, v)

\* AffineGroup.reflection(v)
reflection(g, v) ==
    IF ~IsUnit(Norm2(v, g.p), g.p)
    THEN Raised("reflection", "ValueError", <<>>, v)
    ELSE element_class("reflection", g,
                       Householder(g, v, Mod(Mod(2, g.p) * Inverse(Norm2(v, g.p), g.p), g.p)),
                       Zero(g), TRUE, <<>>, v)

\* AffineGroupElement._mul_: (A1, b1) * (A2, b2) = (A1 A2, b1 + A1 b2)
mul(g, x, y) ==
    element_class("mul", g, MatMul(x.A, y.A, g.p),
                  VecAdd(x.b, MatVec(x.A, y.b, g.p), g.p), FALSE, <<>>, <<>>)

EInit(n, kinds) ==
    /\ G \in Groups(n, kinds)
    /\ pc = "idle"
    /\ cand = <<>>
    /\ res = NoRes
    /\ anCache = NoElement

EIdle ==
    /\ G = [degree |-> 0, p |-> 2, kind |-> "base"]
    /\ pc = "idle"
    /\ cand = <<>>
    /\ res = NoRes
    /\ anCache = NoElement

Linear ==
    /\ pc = "idle"
    /\ \E A \in matrix_space(G) : res' = linear(G, A)
    /\ UNCHANGED <<G, pc, cand, anCache, gvars, pvars>>

Translation ==
    /\ pc = "idle"
    /\ \E b \in vector_space(G) : res' = translation(G, b)
    /\ UNCHANGED <<G, pc, cand, anCache, gvars, pvars>>

Reflection ==
    /\ pc = "idle"
    /\ \E v \in vector_space(G) : res' = reflection(G, v)
    /\ UNCHANGED <<G, pc, cand, anCache, gvars, pvars>>

\* g * g for the element g the last call returned
Square ==
    /\ pc = "idle"
    /\ res.status = "ok"
    /\ res' = [mul(G, res, res) EXCEPT !.from = res.op, !.argA = res.argA, !.argv = res.argv]
    /\ UNCHANGED <<G, pc, cand, anCache, gvars, pvars>>

\* random_element: A = self.matrix_space().random_element()
RandomStart ==
    /\ pc = "idle"
    /\ cand' \in matrix_space(G)
    /\ pc' = "random"
    /\ res' = NoRes
    /\ UNCHANGED <<G, anCache, gvars, pvars>>

\* one pass of the loop body: A.randomize()
Randomize(loop) ==
    /\ pc = loop
    /\ ~is_invertible(cand, G.p)
    /\ cand' \in matrix_space(G)
    /\ UNCHANGED <<G, pc, res, anCache, gvars, pvars>>

RandomRetry == Randomize("random")

\* random_element with "if" for "while": the loop is left after any pass
RandomReturn_if ==
    /\ pc = "random"
    /\ \E b \in vector_space(G) :
          res' = element_class("random_element", G, cand, b, FALSE, <<>>, <<>>)
    /\ pc' = "idle"
    /\ cand' = <<>>
    /\ UNCHANGED <<G, anCache, gvars, pvars>>

\* the loop is left; b is drawn and the element built with check=False
RandomReturn ==
    /\ pc = "random"
    /\ is_invertible(cand, G.p)
    /\ \E b \in vector_space(G) :
          res' = element_class("random_element", G, cand, b, FALSE, <<>>, <<>>)
    /\ pc' = "idle"
    /\ cand' = <<>>
    /\ UNCHANGED <<G, anCache, gvars, pvars>>

\* an_element, answered from the cache of cached_method
AnElementCached ==
    /\ pc = "idle"
    /\ anCache.set
    /\ res' = Returned("an_element", "", anCache.A, anCache.b, <<>>, <<>>)
    /\ UNCHANGED <<G, pc, cand, anCache, gvars, pvars>>

\* _an_element_: A = self.matrix_space().an_element()
AnElementStart ==
    /\ pc = "idle"
    /\ ~anCache.set
    /\ cand' \in matrix_space(G)
    /\ pc' = "an_element"
    /\ res' = NoRes
    /\ UNCHANGED <<G, anCache, gvars, pvars>>

AnElementRetry == Randomize("an_element")

AnElementReturn ==
    /\ pc = "an_element"
    /\ is_invertible(cand, G.p)
    /\ \E b \in vector_space(G) :
          /\ res' = element_class("an_element", G, cand, b, FALSE, <<>>, <<>>)
          /\ anCache' = [set |-> TRUE, A |-> res'.A, b |-> res'.b]
    /\ pc' = "idle"
    /\ cand' = <<>>
    /\ UNCHANGED <<G, gvars, pvars>>


(***************************************************************************)
(* test_class_pickling: classes made by metaclass(name, bases) and their   *)
(* pickles.  A class is referred to by tag: the module's classes "alpha"   *)
(* and "bar", or "meta" with the index of a class made by metaclass().     *)
(***************************************************************************)
MaxClasses == 2      \* classes made by direct calls of metaclass()
MaxHeap == 4         \* classes in all, those built by loads included

Names == {"foo", "foo2"}

alpha == [tag |-> "alpha", id |-> 0]
bar == [tag |-> "bar", id |-> 0]
MetaRef(i) == [tag |-> "meta", id |-> i]
NoRef == [tag |-> "none", id |-> 0]

\* The tuples of bases tried: distinct module classes, or a class made by
\* metaclass() followed by at most one module class.
BasesOver(h) ==
    {<<>>, <<alpha>>, <<bar>>, <<alpha, bar>>, <<bar, alpha>>}
    \cup {<<MetaRef(i)>> : i \in 1..Len(h)}
    \cup {<<MetaRef(i), c>> : i \in 1..Len(h), c \in {alpha, bar}}

\* metaclass(name, bases): the new class, with reduce_args = (name, bases)
metaclass(name, bases) ==
    [name |-> name, bases |-> bases, reduce_args |-> [name |-> name, bases |-> bases]]

\* __reduce__ returning the name alone
reduce_name(h, i) == [fn |-> "metaclass", args |-> [name |-> h[i].reduce_args.name, bases |-> <<>>]]

\* Metaclass.__reduce__: (metaclass, self.reduce_args)
reduce(h, i) == [fn |-> "metaclass", args |-> h[i].reduce_args]

RECURSIVE dumps(_, _)
\* The pickle of class c: a module class is pickled by name, a class whose
\* type is Metaclass by its reduction, the arguments pickled in turn.
dumps(h, c) ==
    IF c.tag = "meta"
    THEN LET r == reduce(h, c.id)
         IN  [fn |-> r.fn, name |-> r.args.name,
              bases |-> [k \in 1..Len(r.args.bases) |-> dumps(h, r.args.bases[k])]]
    ELSE [fn |-> "global", name |-> c.tag, bases |-> <<>>]

RECURSIVE loads(_, _), loadsEach(_, _, _)
\* Unpickling: the heap afterwards and the object built.
loads(h, s) ==
    IF s.fn = "global" THEN [heap |-> h, obj |-> [tag |-> s.name, id |-> 0]]
    ELSE LET a == loadsEach(h, s.bases, Len(s.bases))
         IN  [heap |-> Append(a.heap, metaclass(s.name, a.objs)),
              obj |-> MetaRef(Len(a.heap) + 1)]
\* the first n pickled arguments, unpickled left to right
loadsEach(h, ss, n) ==
    IF n = 0 THEN [heap |-> h, objs |-> <<>>]
    ELSE LET a == loadsEach(h, ss, n - 1)
             x == loads(a.heap, ss[n])
         IN  [heap |-> x.heap, objs |-> Append(a.objs, x.obj)]

RECURSIVE eq(_, _, _)
\* x == y for classes: Metaclass.__eq__ when either is made by metaclass(),
\* identity otherwise.
eq(h, x, y) ==
    IF x.tag = "meta" /\ y.tag = "meta"
    THEN LET a == h[x.id].reduce_args
             b == h[y.id].reduce_args
         IN  /\ a.name = b.name
             /\ Len(a.bases) = Len(b.bases)
             /\ \A k \in 1..Len(a.bases) :
                    a.bases[k] = b.bases[k] \/ eq(h, a.bases[k], b.bases[k])
    ELSE x.tag # "meta" /\ y.tag # "meta" /\ x = y

NoPickle == [fn |-> "none", name |-> "", bases |-> <<>>]

PIdle ==
    /\ heap = <<>>
    /\ dumped = NoRef
    /\ pickled = NoPickle
    /\ loaded = NoRef

\* c = metaclass(name, bases)
MakeClass ==
    /\ Len(heap) < MaxClasses
    /\ \E name \in Names, bases \in BasesOver(heap) :
          heap' = Append(heap, metaclass(name, bases))
    /\ UNCHANGED <<dumped, pickled, loaded, gvars, evars>>

\* s = cPickle.dumps(c)
Dumps ==
    /\ \E i \in 1..Len(heap) :
          /\ dumped' = MetaRef(i)
          /\ pickled' = dumps(heap, MetaRef(i))
    /\ loaded' = NoRef
    /\ UNCHANGED <<heap, gvars, evars>>

\* c2 = cPickle.loads(s)
Loads ==
    /\ pickled # NoPickle
    /\ LET x == loads(heap, pickled)
       IN  /\ Len(x.heap) <= MaxHeap
           /\ heap' = x.heap
           /\ loaded' = x.obj
    /\ UNCHANGED <<dumped, pickled, gvars, evars>>

PNext == MakeClass \/ Dumps \/ Loads

GIdle ==
    /\ instances = <<>>
    /\ cache = {}
    /\ last = NoCall

GInit == GIdle /\ EIdle /\ PIdle

\* One call AffineGroup(*args, **kwds).
ClassCall(a) ==
    LET n == Normalize(a)
        before == Len(instances)
    IN  /\ UNCHANGED <<evars, pvars>>
        /\ CASE n.tag = "instance" ->
               /\ last' = [args |-> a, key |-> n, res |-> Result("ok", a.g, "", before)]
               /\ UNCHANGED <<instances, cache>>
          [] n.tag = "raise" ->
               /\ last' = [args |-> a, key |-> n, res |-> Result("raise", None, n.exc, before)]
               /\ UNCHANGED <<instances, cache>>
          [] OTHER ->
               IF CacheHit(n.degree, n.ring) # {}
               THEN /\ last' = [args |-> a, key |-> n,
                                res |-> Result("ok", (CHOOSE e \in CacheHit(n.degree, n.ring) : TRUE).id,
                                               "", before)]
                    /\ UNCHANGED <<instances, cache>>
               ELSE /\ before < MaxGroups
                    /\ instances' = Append(instances, AffineGroupInit(n.degree, n.ring))
                    /\ cache' = cache \cup {[degree |-> n.degree, ring |-> n.ring, id |-> before + 1]}
                    /\ last' = [args |-> a, key |-> n, res |-> Result("ok", before + 1, "", before)]

CallWithGroup == \E g \in 1..Len(instances) : ClassCall(GroupArgs(g))
CallWithSpace ==
    \E hasRel \in BOOLEAN, rel \in 0..MaxArgDegree, dim \in 0..MaxArgDegree, r \in ArgRings :
        ClassCall(SpaceArgs(hasRel, rel, dim, r))
CallWithRing == \E d \in ArgDegrees, r \in ArgRings : ClassCall(RingArgs(d, r))
CallWithOrder == \E d \in ArgDegrees, q \in ArgOrders, v \in ArgVars : ClassCall(OrderArgs(d, q, v))
CallWithOther == ClassCall(OtherArgs)

GNext == CallWithGroup \/ CallWithSpace \/ CallWithRing \/ CallWithOrder \/ CallWithOther

\* Construction of groups.
SpecGroup == GInit /\ [][GNext]_vars

ENext ==
    \/ Linear \/ Translation \/ Reflection \/ Square
    \/ RandomStart \/ RandomRetry \/ RandomReturn
    \/ AnElementCached \/ AnElementStart \/ AnElementRetry \/ AnElementReturn

\* The element constructors of one group.
ElemInit == GIdle /\ PIdle /\ EInit(MaxSpace, Kinds)

SpecElem == ElemInit /\ [][ENext]_vars

AlgNext == Linear \/ Translation \/ Reflection \/ Square

\* The deterministic element constructors and the product, in larger groups
\* that keep AffineGroup's own check.
AlgInit == GIdle /\ PIdle /\ EInit(MaxSpaceAlg, {"base"})

SpecAlg == AlgInit /\ [][AlgNext]_vars

\* Pickling of classes made by metaclass().
PInit == GIdle /\ EIdle /\ PIdle

SpecPickle == PInit /\ [][PNext]_vars

\* The resampling loops under the scheduling random_element relies on: a
\* pass of the loop is always taken, and a draw that keeps being possible
\* eventually gives an invertible matrix.
SpecElemFair ==
    /\ ElemInit /\ [][ENext]_vars
    /\ WF_vars(RandomReturn) /\ WF_vars(AnElementReturn)
    /\ SF_vars(RandomRetry /\ is_invertible(cand', G.p))
    /\ SF_vars(AnElementRetry /\ is_invertible(cand', G.p))

(***************************************************************************)
(* The claims.                                                             *)
(***************************************************************************)
\* A matrix is singular when it sends some nonzero vector to zero.
Singular(g, A) == \E v \in vector_space(g) \ {Zero(g)} : MatVec(A, v, g.p) = Zero(g)

Constructors == {"linear", "translation", "reflection", "random_element", "an_element"}

\* C1: no two AffineGroup instances have the same (degree, ring), and a call
\* that normalizes to a (degree, ring) pair returns the instance with just
\* that degree and ring: equal pairs give the identical instance, different
\* pairs different instances.
InvC1 ==
    /\ \A i, j \in 1..Len(instances) : instances[i] = instances[j] => i = j
    /\ (last.res.tag = "ok" /\ last.key.tag = "key") =>
           instances[last.res.id] = [degree |-> last.key.degree, ring |-> last.key.ring]

\* a call answered from the cache while two groups exist
WitC1 ==
    /\ Len(instances) = 2
    /\ last.res.tag = "ok" /\ last.key.tag = "key"
    /\ last.res.before = 2
    /\ last.res.id = 1

\* the (degree, ring) pair a construction call is meant to stand for
IntendedPair(a) ==
    CASE a.form = "space" -> [degree |-> IF a.hasRel THEN a.rel ELSE a.dim, ring |-> a.ring]
      [] a.form = "ring" -> [degree |-> a.dim, ring |-> a.ring]
      [] OTHER -> [degree |-> a.dim, ring |-> FiniteField(a.order, "a")]

\* C3: whatever the form of the arguments (a space, a degree and a ring, a
\* degree and a prime power with the default generator name, an existing
\* group), a call returns the one instance of the intended degree and ring;
\* a call with an existing group returns that group and builds nothing.
InvC3 ==
    last.res.tag = "ok" =>
        IF last.args.form = "group"
        THEN last.res.id = last.args.g /\ Len(instances) = last.res.before
        ELSE (last.args.form = "order" => last.args.var \in {"", "a"}) =>
                 /\ instances[last.res.id] = IntendedPair(last.args)
                 /\ \A j \in 1..Len(instances) :
                        instances[j] = IntendedPair(last.args) => j = last.res.id

\* a space whose dimension differs from its relative dimension, over GF(4),
\* gets the group AffineGroup(d, 4) made before
WitC3 ==
    /\ last.res.tag = "ok"
    /\ last.args.form = "space" /\ last.args.hasRel /\ last.args.rel # last.args.dim
    /\ last.args.ring = FiniteField(4, "a")
    /\ last.res.before = Len(instances)

\* C4: a construction whose degree is not a non-negative integer, or whose
\* ring argument is an integer that is no prime power, raises a TypeError or
\* a ValueError and registers no instance.
CexC4 ==
    ((last.args.form \in {"ring", "order"} /\ last.args.dim < 0)
        \/ (last.args.form = "order" /\ ~IsPrimePower(last.args.order))) =>
        /\ last.res.tag = "raise"
        /\ last.res.exc \in {"TypeError", "ValueError"}
        /\ Len(instances) = last.res.before

\* C2: the linear part of every element a public constructor returns is
\* invertible (it is not singular).
InvC2 ==
    (res.status = "ok" /\ res.op \in Constructors) => ~Singular(G, res.A)

\* random_element returned an element of degree 2 other than a translation
WitC2 ==
    /\ res.status = "ok" /\ res.op = "random_element"
    /\ G.degree = 2 /\ res.A # One(G)

\* C5: in an AffineGroup, linear(A) raises TypeError when A is singular and
\* returns (A, 0) when A is invertible.
InvC5 ==
    res.op = "linear" =>
        IF Singular(G, res.argA)
        THEN res.status = "TypeError"
        ELSE res.status = "ok" /\ res.A = res.argA /\ res.b = Zero(G)

\* linear raised on a singular nonzero matrix of degree 2
WitC5 ==
    /\ res.op = "linear" /\ G.kind = "base" /\ G.degree = 2 /\ G.p = 5
    /\ res.status = "TypeError" /\ res.argA # [i \in 1..2 |-> Zero(G)]

\* C6: reflection(v) raises ValueError whenever the sum of the squares of
\* the coordinates of v is zero in the base ring.
InvC6 ==
    (res.op = "reflection" /\ Norm2(res.argv, G.p) = 0) => res.status = "ValueError"

\* reflection raised on a nonzero vector of norm zero, in odd characteristic
WitC6 ==
    /\ res.op = "reflection" /\ res.status = "ValueError"
    /\ G.p = 5 /\ res.argv # Zero(G)

\* C7: the product of a reflection with itself is the identity element.
InvC7 ==
    (res.op = "mul" /\ res.from = "reflection") => (res.A = One(G) /\ res.b = Zero(G))

\* the square of a reflection that is neither the identity nor diagonal
WitC7 ==
    /\ res.op = "mul" /\ res.from = "reflection"
    /\ G.degree = 2 /\ G.p = 3 /\ res.argv = <<1, 1>>

\* C8: the pickle of a class made by metaclass(name, bases) is the call of
\* metaclass on that name and those bases, and loading it builds a new
\* class equal to the one dumped under Metaclass.__eq__.
InvC8 ==
    /\ dumped # NoRef =>
           /\ pickled.fn = "metaclass"
           /\ pickled.name = heap[dumped.id].name
           /\ Len(pickled.bases) = Len(heap[dumped.id].bases)
    /\ loaded # NoRef =>
           /\ loaded.tag = "meta" /\ loaded.id # dumped.id
           /\ heap[loaded.id].name = heap[dumped.id].name
           /\ eq(heap, dumped, loaded) /\ eq(heap, loaded, dumped)

\* a class whose first base was itself made by metaclass() went through
\* dumps and loads
WitC8 ==
    /\ loaded # NoRef
    /\ Len(heap[dumped.id].bases) = 2
    /\ heap[dumped.id].bases[1].tag = "meta"

InLoop == pc \in {"random", "an_element"}

\* C9: a resampling loop is left only on an invertible candidate, and then
\* by returning an element; on any other candidate the call stays in its
\* loop and neither returns nor raises; and, the draws being fair, a call
\* in its loop eventually returns.
LiveC9 ==
    /\ [][(InLoop /\ pc' # pc) =>
             (is_invertible(cand, G.p) /\ pc' = "idle" /\ res'.status = "ok")]_vars
    /\ [][(InLoop /\ ~is_invertible(cand, G.p)) => (pc' = pc /\ res' = NoRes)]_vars
    /\ (InLoop ~> (pc = "idle" /\ res.status = "ok"))

\* the example-element loop holding a candidate it must replace
WitC9 == pc = "an_element" /\ G.degree = 2 /\ ~is_invertible(cand, G.p)

\* C10 as stated: in a subgroup that overrides the check, every element the
\* inherited constructors return passes the subgroup's check.
CexC10 ==
    (res.status = "ok" /\ res.op \in Constructors) =>
        element_constructor_check(G, res.A, res.b)

\* C10, amended: every element that linear or reflection returns passes the
\* subgroup's check.
InvC10 ==
    (res.status = "ok" /\ res.op \in {"linear", "reflection"}) =>
        element_constructor_check(G, res.A, res.b)

\* linear returned an element of a subgroup of determinant one, and refused
\* nothing it should have accepted
WitC10 ==
    /\ G.kind = "special" /\ G.degree = 2
    /\ res.op = "linear" /\ res.status = "ok" /\ res.A # One(G)
====
